---- MODULE Spec2Model ----
(***************************************************************************)
(* Telemetry service of src/main.py: users, devices and 3-axis readings in *)
(* a relational store, five request handlers, and the statistics computed  *)
(* by compute_stats.                                                       *)
(*                                                                         *)
(* The handlers are sync FastAPI endpoints, so they run in a thread pool   *)
(* and their database round trips interleave.  Each handler is split at    *)
(* its round trips: a SELECT is one step, the INSERT with its commit and   *)
(* refresh is one step.  The sqlite driver opens no transaction for a      *)
(* SELECT, so every SELECT reads the latest committed rows.                *)
(*                                                                         *)
(* x, y and z are Float columns and float request fields: every addition   *)
(* of two of them is rounded to the significand (53 bits for a double).    *)
(* The model keeps the rounding (round to nearest, ties to even) and       *)
(* scales the significand to Precision bits; values are whole multiples of *)
(* the smallest unit.                                                      *)
(***************************************************************************)
EXTENDS Integers, Sequences, FiniteSets, TLC

VARIABLES
    users,        \* table users: sequence of rows, in id order
    devices,      \* table devices
    device_data,  \* table device_data
    pc,           \* pc[w]: where worker thread w is in its handler
    req,          \* req[w]: the request worker w is serving or served last
    loc,          \* loc[w]: the handler's local variables user and devices
    resp,         \* resp[w]: the last response worker w sent
    sum_impl,     \* which summation the interpreter's builtin sum performs
    values,       \* input of a direct call of compute_stats
    stats,        \* result of the direct call
    permuted,     \* the same values in another order
    permuted_stats  \* result of the call on permuted

vars ==
    <<users, devices, device_data, pc, req, loc, resp, sum_impl,
      values, stats, permuted, permuted_stats>>
store == <<users, devices, device_data>>
handlers == <<pc, req, loc, resp>>
direct == <<values, stats, permuted, permuted_stats>>

----------------------------------------------------------------------------
(* Bounds of the model *)

Workers == {1, 2}
Usernames == {"alice", "bob"}
DeviceIds == {"d1", "d2"}
Points == {[x |-> 1, y |-> 8, z |-> 2], [x |-> 8, y |-> 1, z |-> 2]}
MaxReadings == 1
MaxRows == 3
Times == {1, 2}
Precision == 3
MaxLen == 4
StatValues == {1, 2, 3, 4, 5}

----------------------------------------------------------------------------
(* Floating-point addition *)

RECURSIVE Pow2(_)
Pow2(n) == IF n = 0 THEN 1 ELSE 2 * Pow2(n - 1)

Abs(n) == IF n < 0 THEN -n ELSE n

\* the spacing of representable numbers at magnitude n
RECURSIVE ulp(_)
ulp(n) == IF n < Pow2(Precision) THEN 1 ELSE 2 * ulp(n \div 2)

\* n >= 0 rounded to the nearest representable number, ties to the even
\* significand
round_nearest_even(n) ==
    LET u == ulp(n)
        q == n \div u
        r == n % u
    IN  IF 2 * r > u \/ (2 * r = u /\ q % 2 = 1) THEN (q + 1) * u ELSE q * u

representable(n) == round_nearest_even(Abs(n)) = Abs(n)

\* a + b of two floats
float_add(a, b) ==
    LET n == a + b
    IN  IF n < 0 THEN -round_nearest_even(-n) ELSE round_nearest_even(n)

----------------------------------------------------------------------------
(* compute_stats and the builtins it calls *)

\* sum of CPython up to 3.11: acc = acc + item, left to right, from 0
RECURSIVE sum_naive(_, _)
sum_naive(vs, acc) ==
    IF vs = <<>> THEN acc
    ELSE sum_naive(Tail(vs), float_add(acc, Head(vs)))

\* sum of CPython from 3.12 on: Neumaier's compensated summation, the
\* compensation c added at the end when it is not zero
RECURSIVE sum_neumaier(_, _, _)
sum_neumaier(vs, acc, c) ==
    IF vs = <<>> THEN (IF c # 0 THEN float_add(acc, c) ELSE acc)
    ELSE LET x == Head(vs)
             t == float_add(acc, x)
             e == IF Abs(acc) >= Abs(x)
                  THEN float_add(float_add(acc, -t), x)
                  ELSE float_add(float_add(x, -t), acc)
         IN  sum_neumaier(Tail(vs), t, float_add(c, e))

SumImpls == {"naive", "neumaier"}

sum(vs) ==
    IF sum_impl = "naive" THEN sum_naive(vs, 0) ELSE sum_neumaier(vs, 0, 0)

RECURSIVE min(_)
min(vs) ==
    IF Len(vs) = 1 THEN vs[1]
    ELSE LET m == min(Tail(vs)) IN IF m < Head(vs) THEN m ELSE Head(vs)

RECURSIVE max(_)
max(vs) ==
    IF Len(vs) = 1 THEN vs[1]
    ELSE LET m == max(Tail(vs)) IN IF m > Head(vs) THEN m ELSE Head(vs)

\* v inserted into the ascending sequence s
RECURSIVE insert_sorted(_, _)
insert_sorted(v, s) ==
    IF s = <<>> THEN <<v>>
    ELSE IF v <= Head(s) THEN <<v>> \o s
    ELSE <<Head(s)>> \o insert_sorted(v, Tail(s))

RECURSIVE sorted(_)
sorted(vs) ==
    IF vs = <<>> THEN <<>> ELSE insert_sorted(Head(vs), sorted(Tail(vs)))

\* statistics.median: data = sorted(data); the middle element, or
\* (data[i - 1] + data[i]) / 2 of the two middle elements (0-based i = n // 2).
\* The result is the fraction num / den.
median_unsorted(vs) ==
    LET data == vs
        n == Len(data)
        i == n \div 2
    IN  IF n % 2 = 1 THEN [num |-> data[i + 1], den |-> 1]
        ELSE [num |-> float_add(data[i], data[i + 1]), den |-> 2]

median_midpoint(vs) ==
    LET data == sorted(vs)
        n == Len(data)
        i == n \div 2
    IN  [num |-> data[i + 1], den |-> 1]

median(vs) ==
    LET data == sorted(vs)
        n == Len(data)
        i == n \div 2
    IN  IF n % 2 = 1 THEN [num |-> data[i + 1], den |-> 1]
        ELSE [num |-> float_add(data[i], data[i + 1]), den |-> 2]

\* min() of an empty list raises ValueError
ValueError == [exc |-> "ValueError"]

compute_stats_default(vs) ==
    IF vs = <<>>
    THEN [min |-> 0, max |-> 0, count |-> 0, sum |-> 0,
          median |-> [num |-> 0, den |-> 1]]
    ELSE [min |-> min(vs), max |-> max(vs), count |-> Len(vs),
          sum |-> sum(vs), median |-> median(vs)]

compute_stats(vs) ==
    IF vs = <<>> THEN ValueError
    ELSE [min |-> min(vs), max |-> max(vs), count |-> Len(vs),
          sum |-> sum(vs), median |-> median(vs)]

raised(r) == "exc" \in DOMAIN r

----------------------------------------------------------------------------
(* Requests, responses and the rows a query returns *)

\* an optional datetime query parameter: <<>> is None, <<t>> is the datetime t
OptionalTimes == {<<>>} \cup {<<t>> : t \in Times}

NoReq ==
    [op |-> "none", username |-> "", device_id |-> "",
     x |-> 0, y |-> 0, z |-> 0, start |-> <<>>, end |-> <<>>]

UserCreate(username) ==
    [NoReq EXCEPT !.op = "create_user", !.username = username]

DeviceCreate(username, device_id) ==
    [NoReq EXCEPT !.op = "register_device", !.username = username,
                  !.device_id = device_id]

DeviceDataInput(device_id, p) ==
    [NoReq EXCEPT !.op = "receive_data", !.device_id = device_id,
                  !.x = p.x, !.y = p.y, !.z = p.z]

StatsRequest(device_id, start, end) ==
    [NoReq EXCEPT !.op = "get_stats", !.device_id = device_id,
                  !.start = start, !.end = end]

UserStatsRequest(username) ==
    [NoReq EXCEPT !.op = "get_user_stats", !.username = username]

NoResp == [status |-> 0, body |-> [detail |-> ""]]
NoLoc == [user |-> 0, devices |-> <<>>]

\* raise HTTPException(status_code, detail)
HTTPException(status_code, detail) ==
    [status |-> status_code, body |-> [detail |-> detail]]

\* an exception no handler catches: the server answers 500
InternalServerError == HTTPException(500, "Internal Server Error")

Ok(body) == [status |-> 200, body |-> body]

\* the orders in which a SELECT without ORDER BY may return the rows
Orders(rows) ==
    {[i \in 1 .. Len(rows) |-> rows[p[i]]] : p \in Permutations(1 .. Len(rows))}

Column(rows, axis) == [i \in 1 .. Len(rows) |-> rows[i][axis]]

\* {"x": compute_stats([d.x ...]), "y": ..., "z": ...}; the first call that
\* raises ends the evaluation
axes_stats(rows) ==
    LET x == compute_stats(Column(rows, "x"))
    IN  IF raised(x) THEN ValueError
        ELSE [x |-> x,
              y |-> compute_stats(Column(rows, "y")),
              z |-> compute_stats(Column(rows, "z"))]

\* db.query(User).filter(User.username == username).first()
user_by_name(username) == SelectSeq(users, LAMBDA u : u.username = username)

\* db.query(Device).filter(Device.device_id == device_id).first()
device_by_id(device_id) ==
    SelectSeq(devices, LAMBDA d : d.device_id = device_id)

\* a handler ends: its response is sent, its locals are dropped
Respond(w, r) ==
    /\ resp' = [resp EXCEPT ![w] = r]
    /\ pc' = [pc EXCEPT ![w] = "idle"]
    /\ loc' = [loc EXCEPT ![w] = NoLoc]

\* a handler goes on to its next database round trip
Goto(w, label, l) ==
    /\ resp' = [resp EXCEPT ![w] = NoResp]
    /\ pc' = [pc EXCEPT ![w] = label]
    /\ loc' = [loc EXCEPT ![w] = l]

----------------------------------------------------------------------------
(* POST /users/ *)

create_user_query_unchecked(w) ==
    /\ pc[w] = "idle"
    /\ \E username \in Usernames :
        /\ req' = [req EXCEPT ![w] = UserCreate(username)]
        /\ Goto(w, "create_user_commit", NoLoc)
    /\ UNCHANGED <<store, sum_impl, direct>>

create_user_query(w) ==
    /\ pc[w] = "idle"
    /\ \E username \in Usernames :
        /\ req' = [req EXCEPT ![w] = UserCreate(username)]
        /\ IF user_by_name(username) # <<>>
           THEN Respond(w, HTTPException(400, "Username already exists"))
           ELSE Goto(w, "create_user_commit", NoLoc)
    /\ UNCHANGED <<store, sum_impl, direct>>

create_user_commit_not_unique(w) ==
    /\ pc[w] = "create_user_commit"
    /\ LET new_user == [id |-> Len(users) + 1, username |-> req[w].username]
       IN  /\ users' = Append(users, new_user)
           /\ Respond(w, Ok([message |-> "User registered successfully",
                             user_id |-> new_user.id]))
    /\ UNCHANGED <<devices, device_data, req, sum_impl, direct>>

\* db.add, db.commit, db.refresh; username is unique=True, so the INSERT of
\* a name that is stored by now fails with IntegrityError
create_user_commit(w) ==
    /\ pc[w] = "create_user_commit"
    /\ LET new_user == [id |-> Len(users) + 1, username |-> req[w].username]
       IN  IF user_by_name(req[w].username) # <<>>
           THEN /\ Respond(w, InternalServerError)
                /\ users' = users
           ELSE /\ users' = Append(users, new_user)
                /\ Respond(w, Ok([message |-> "User registered successfully",
                                  user_id |-> new_user.id]))
    /\ UNCHANGED <<devices, device_data, req, sum_impl, direct>>

----------------------------------------------------------------------------
(* POST /devices/ *)

register_device_user(w) ==
    /\ pc[w] = "idle"
    /\ \E username \in Usernames, device_id \in DeviceIds :
        /\ req' = [req EXCEPT ![w] = DeviceCreate(username, device_id)]
        /\ LET user == user_by_name(username)
           IN  IF user = <<>>
               THEN Respond(w, HTTPException(404, "User not found"))
               ELSE Goto(w, "register_device_check",
                         [NoLoc EXCEPT !.user = user[1].id])
    /\ UNCHANGED <<store, sum_impl, direct>>

register_device_check(w) ==
    /\ pc[w] = "register_device_check"
    /\ IF device_by_id(req[w].device_id) # <<>>
       THEN Respond(w, HTTPException(400, "Device ID already registered"))
       ELSE Goto(w, "register_device_commit", loc[w])
    /\ UNCHANGED <<store, req, sum_impl, direct>>

register_device_commit_one_per_owner(w) ==
    /\ pc[w] = "register_device_commit"
    /\ LET new_device == [id |-> Len(devices) + 1,
                          device_id |-> req[w].device_id,
                          owner_id |-> loc[w].user]
       IN  IF device_by_id(req[w].device_id) # <<>>
           THEN /\ Respond(w, InternalServerError)
                /\ devices' = devices
           ELSE /\ devices' =
                       Append(SelectSeq(devices,
                                        LAMBDA d : d.owner_id # loc[w].user),
                              new_device)
                /\ Respond(w, Ok([message |-> "Device registered successfully",
                                  device_id |-> new_device.device_id]))
    /\ UNCHANGED <<users, device_data, req, sum_impl, direct>>

\* device_id is unique=True
register_device_commit(w) ==
    /\ pc[w] = "register_device_commit"
    /\ LET new_device == [id |-> Len(devices) + 1,
                          device_id |-> req[w].device_id,
                          owner_id |-> loc[w].user]
       IN  IF device_by_id(req[w].device_id) # <<>>
           THEN /\ Respond(w, InternalServerError)
                /\ devices' = devices
           ELSE /\ devices' = Append(devices, new_device)
                /\ Respond(w, Ok([message |-> "Device registered successfully",
                                  device_id |-> new_device.device_id]))
    /\ UNCHANGED <<users, device_data, req, sum_impl, direct>>

----------------------------------------------------------------------------
(* POST /data/ *)

\* rows stored plus rows about to be stored
Pending == Len(device_data) + Cardinality({w \in Workers : pc[w] = "receive_data_commit"})

receive_data_query_unchecked(w) ==
    /\ pc[w] = "idle"
    /\ \E device_id \in DeviceIds, p \in Points :
        /\ Pending < MaxReadings
        /\ req' = [req EXCEPT ![w] = DeviceDataInput(device_id, p)]
        /\ Goto(w, "receive_data_commit", NoLoc)
    /\ UNCHANGED <<store, sum_impl, direct>>

\* the table is capped at MaxReadings rows: no further request that would
\* store one is taken
receive_data_query(w) ==
    /\ pc[w] = "idle"
    /\ \E device_id \in DeviceIds, p \in Points :
        /\ req' = [req EXCEPT ![w] = DeviceDataInput(device_id, p)]
        /\ IF device_by_id(device_id) = <<>>
           THEN Respond(w, HTTPException(404, "Device not registered"))
           ELSE /\ Pending < MaxReadings
                /\ Goto(w, "receive_data_commit", NoLoc)
    /\ UNCHANGED <<store, sum_impl, direct>>

\* DeviceData(**data.dict()); timestamp defaults to datetime.utcnow() at the
\* INSERT: a time not before the one of the row stored last
receive_data_commit(w) ==
    /\ pc[w] = "receive_data_commit"
    /\ \E t \in Times :
        /\ device_data # <<>> => t >= device_data[Len(device_data)].timestamp
        /\ LET device_data_row ==
                   [id |-> Len(device_data) + 1,
                    device_id |-> req[w].device_id, timestamp |-> t,
                    x |-> req[w].x, y |-> req[w].y, z |-> req[w].z]
           IN  device_data' = Append(device_data, device_data_row)
    /\ Respond(w, Ok([message |-> "Data stored successfully"]))
    /\ UNCHANGED <<users, devices, req, sum_impl, direct>>

----------------------------------------------------------------------------
(* GET /stats/{device_id} *)

\* the rows query.all() selects; a datetime is always true, so "if start"
\* tests start is not None
stats_rows_exclusive(device_id, start, end) ==
    SelectSeq(device_data,
              LAMBDA d : /\ d.device_id = device_id
                         /\ start # <<>> => d.timestamp > start[1]
                         /\ end # <<>> => d.timestamp < end[1])

stats_rows(device_id, start, end) ==
    SelectSeq(device_data,
              LAMBDA d : /\ d.device_id = device_id
                         /\ start # <<>> => d.timestamp >= start[1]
                         /\ end # <<>> => d.timestamp <= end[1])

get_stats(w) ==
    /\ pc[w] = "idle"
    /\ \E device_id \in DeviceIds, start \in OptionalTimes, end \in OptionalTimes :
        /\ req' = [req EXCEPT ![w] = StatsRequest(device_id, start, end)]
        /\ \E data \in Orders(stats_rows(device_id, start, end)) :
            IF data = <<>>
            THEN Respond(w, HTTPException(404, "No data found"))
            ELSE Respond(w, Ok(axes_stats(data)))
    /\ UNCHANGED <<store, sum_impl, direct>>

----------------------------------------------------------------------------
(* GET /user_stats/{username} *)

get_user_stats_user(w) ==
    /\ pc[w] = "idle"
    /\ \E username \in Usernames :
        /\ req' = [req EXCEPT ![w] = UserStatsRequest(username)]
        /\ LET user == user_by_name(username)
           IN  IF user = <<>>
               THEN Respond(w, HTTPException(404, "User not found"))
               ELSE Goto(w, "get_user_stats_devices",
                         [NoLoc EXCEPT !.user = user[1].id])
    /\ UNCHANGED <<store, sum_impl, direct>>

\* the devices are kept in id order: their order decides only the order of
\* the keys of per_device, which is modelled as a function
get_user_stats_devices(w) ==
    /\ pc[w] = "get_user_stats_devices"
    /\ LET owned == SelectSeq(devices, LAMBDA d : d.owner_id = loc[w].user)
       IN  IF owned = <<>>
           THEN Respond(w, HTTPException(404, "No devices found for this user"))
           ELSE Goto(w, "get_user_stats_data", [loc[w] EXCEPT !.devices = owned])
    /\ UNCHANGED <<store, req, sum_impl, direct>>

device_ids(ds) == {ds[i].device_id : i \in 1 .. Len(ds)}

\* the body get_user_stats builds from devices and all_data, or ValueError
user_stats_unfiltered(ds, all_data) ==
    LET per_device_stats == [id \in device_ids(ds) |-> axes_stats(all_data)]
    IN  IF \E id \in device_ids(ds) : raised(per_device_stats[id])
        THEN ValueError
        ELSE [aggregated |-> axes_stats(all_data),
              per_device |-> per_device_stats]

user_stats(ds, all_data) ==
    LET per_device_stats ==
            [id \in device_ids(ds) |->
                axes_stats(SelectSeq(all_data, LAMBDA d : d.device_id = id))]
    IN  IF \E id \in device_ids(ds) : raised(per_device_stats[id])
        THEN ValueError
        ELSE [aggregated |-> axes_stats(all_data),
              per_device |-> per_device_stats]

\* the rows of DeviceData.device_id.in_([d.device_id for d in devices])
user_rows(ds) ==
    SelectSeq(device_data, LAMBDA d : d.device_id \in device_ids(ds))

get_user_stats_data(w) ==
    /\ pc[w] = "get_user_stats_data"
    /\ \E all_data \in Orders(user_rows(loc[w].devices)) :
        LET body == user_stats(loc[w].devices, all_data)
        IN  IF all_data = <<>>
            THEN Respond(w, HTTPException(404, "No data found for user's devices"))
            ELSE IF raised(body) THEN Respond(w, InternalServerError)
            ELSE Respond(w, Ok(body))
    /\ UNCHANGED <<store, req, sum_impl, direct>>

----------------------------------------------------------------------------
(* compute_stats called on its own *)

NoStats == [exc |-> "not called"]

Inputs == UNION {[1 .. n -> StatValues] : n \in 0 .. MaxLen}

call_compute_stats ==
    /\ stats = NoStats
    /\ stats' = compute_stats(values)
    /\ UNCHANGED <<store, handlers, sum_impl, values, permuted, permuted_stats>>

\* the same values in another order
call_reordered ==
    /\ stats # NoStats
    /\ permuted_stats = NoStats
    /\ \E vs \in Orders(values) :
        /\ vs # values
        /\ permuted' = vs
        /\ permuted_stats' = compute_stats(vs)
    /\ UNCHANGED <<store, handlers, sum_impl, values, stats>>

----------------------------------------------------------------------------------------------------------------------------------------
(* Specifications *)

\* the service as started: empty tables, every worker idle
InitStore ==
    /\ users = <<>>
    /\ devices = <<>>
    /\ device_data = <<>>

InitHandlers ==
    /\ pc = [w \in Workers |-> "idle"]
    /\ req = [w \in Workers |-> NoReq]
    /\ loc = [w \in Workers |-> NoLoc]
    /\ resp = [w \in Workers |-> NoResp]

InitDirect ==
    /\ values = <<>>
    /\ stats = NoStats
    /\ permuted = <<>>
    /\ permuted_stats = NoStats

Init == InitStore /\ InitHandlers /\ InitDirect /\ sum_impl \in SumImpls

Registration(w) ==
    \/ create_user_query(w)
    \/ create_user_commit(w)
    \/ register_device_user(w)
    \/ register_device_check(w)
    \/ register_device_commit(w)

Ingestion(w) ==
    \/ receive_data_query(w)
    \/ receive_data_commit(w)

Queries(w) ==
    \/ get_stats(w)
    \/ get_user_stats_user(w)
    \/ get_user_stats_devices(w)
    \/ get_user_stats_data(w)

\* The whole service: every worker serves any request.  The specifications
\* below are parts of it that are small enough to explore: the requests one
\* after the other (SpecSerial), the registrations in parallel (SpecRace),
\* one query against a store that is given (SpecQueries), and compute_stats
\* alone (SpecStats).
Next == \E w \in Workers : Registration(w) \/ Ingestion(w) \/ Queries(w)

Spec == Init /\ [][Next]_vars

\* One worker serves the requests one after the other.
Serial == CHOOSE w \in Workers : TRUE

NextSerial == Registration(Serial) \/ Ingestion(Serial) \/ Queries(Serial)

SpecSerial == Init /\ [][NextSerial]_vars

\* The workers register users and devices concurrently.
NextRace == \E w \in Workers : Registration(w)

SpecRace == Init /\ [][NextRace]_vars

\* One query against a store the serial service can have built: no user or
\* both, the devices in the order of DeviceIds with alice owning the first,
\* up to MaxRows rows.
UserOrder == <<"alice", "bob">>
DeviceOrder == <<"d1", "d2">>

QueriedUsers == {[i \in 1 .. n |-> [id |-> i, username |-> UserOrder[i]]] : n \in {0, 2}}

QueriedDevices(us) ==
    {ds \in UNION {[1 .. n -> [id : 1 .. 2, device_id : DeviceIds, owner_id : 1 .. Len(us)]] :
                      n \in 0 .. 2} :
        \A i \in 1 .. Len(ds) :
            /\ ds[i].id = i
            /\ ds[i].device_id = DeviceOrder[i]
            /\ ds[i].owner_id = (IF i = 1 THEN 1 ELSE ds[i].owner_id)}

QueriedRows(ds) ==
    LET Stored == [device_id : device_ids(ds), timestamp : Times, point : Points]
        Row(i, r) == [id |-> i, device_id |-> r.device_id,
                      timestamp |-> r.timestamp,
                      x |-> r.point.x, y |-> r.point.y, z |-> r.point.z]
        InTime(rs) == \A i \in 2 .. Len(rs) : rs[i].timestamp >= rs[i - 1].timestamp
    IN  {[i \in 1 .. Len(rs) |-> Row(i, rs[i])] :
            rs \in {s \in UNION {[1 .. n -> Stored] : n \in 0 .. MaxRows} : InTime(s)}}

InitQueries ==
    /\ users \in QueriedUsers
    /\ devices \in QueriedDevices(users)
    /\ device_data \in QueriedRows(devices)
    /\ InitHandlers /\ InitDirect /\ sum_impl \in SumImpls

Unanswered == resp[Serial] = NoResp

NextQueries ==
    \/ Unanswered /\ get_stats(Serial)
    \/ Unanswered /\ get_user_stats_user(Serial)
    \/ Unanswered /\ get_user_stats_devices(Serial)
    \/ Unanswered /\ get_user_stats_data(Serial)

SpecQueries == InitQueries /\ [][NextQueries]_vars

\* compute_stats called on any list of up to MaxLen values, then on the same
\* values in other orders.
InitStats ==
    /\ InitStore /\ InitHandlers /\ sum_impl \in SumImpls
    /\ values \in Inputs
    /\ stats = NoStats
    /\ permuted = <<>>
    /\ permuted_stats = NoStats

NextStats == call_compute_stats \/ call_reordered

SpecStats == InitStats /\ [][NextStats]_vars

----------------------------------------------------------------------------
(* Properties of the registration and ingestion handlers *)

\* worker w takes a step of its handler
Acts(w) ==
    <<pc[w], req[w], loc[w], resp[w]>> # <<pc'[w], req'[w], loc'[w], resp'[w]>>

\* worker w takes the last step of a handler: its response is sent
Completes(w) == Acts(w) /\ pc'[w] = "idle"

\* worker w takes the first step of the handler of a new request
Arrives(w, op) == Acts(w) /\ pc[w] = "idle" /\ req'[w].op = op

UsernameStored(username) ==
    \E i \in 1 .. Len(users) : users[i].username = username

DeviceIdStored(device_id) ==
    \E i \in 1 .. Len(devices) : devices[i].device_id = device_id

UniqueUsernames ==
    \A i, j \in 1 .. Len(users) :
        users[i].username = users[j].username => i = j

UniqueDeviceIds ==
    \A i, j \in 1 .. Len(devices) :
        devices[i].device_id = devices[j].device_id => i = j

Rejected(w, status_code) ==
    /\ pc'[w] = "idle"
    /\ resp'[w].status = status_code
    /\ store' = store

DuplicateUsernameRejected(w) ==
    (Arrives(w, "create_user") /\ UsernameStored(req'[w].username))
        => Rejected(w, 400)

\* C1 as claimed: usernames and device ids stay unique, and a create_user
\* with a stored username, and a register_device that ends while its
\* device_id is stored, end with 400 and add no record.
C1_DuplicatesGet400 ==
    /\ [](UniqueUsernames /\ UniqueDeviceIds)
    /\ [][\A w \in Workers :
            /\ DuplicateUsernameRejected(w)
            /\ (Completes(w) /\ req'[w].op = "register_device"
                    /\ DeviceIdStored(req'[w].device_id))
                => Rejected(w, 400)]_vars

\* C1, amended: usernames and device ids stay unique; a create_user with a
\* stored username ends with 400; a register_device that ends while its
\* device_id is stored ends with 404 when its username is not stored (the
\* user is looked up first) and with 400 otherwise; none adds a record.
C1_DuplicatesRejected ==
    /\ [](UniqueUsernames /\ UniqueDeviceIds)
    /\ [][\A w \in Workers :
            /\ DuplicateUsernameRejected(w)
            /\ (Completes(w) /\ req'[w].op = "register_device"
                    /\ DeviceIdStored(req'[w].device_id))
                => Rejected(w, IF UsernameStored(req'[w].username)
                               THEN 400 ELSE 404)]_vars

\* both rejections of a stored device_id have happened or can: a stored
\* device, and the last request a register_device for it answered 400
C1_Witness ==
    \E w \in Workers :
        /\ pc[w] = "idle"
        /\ req[w].op = "register_device"
        /\ resp[w].status = 400
        /\ DeviceIdStored(req[w].device_id)
        /\ Len(users) = 2

ReadingsReferenceDevices ==
    \A i \in 1 .. Len(device_data) : DeviceIdStored(device_data[i].device_id)

\* C2: every stored reading has the device_id of a stored device, a reading
\* is stored only for a device registered at that time, and receive_data
\* for an unregistered device_id ends with 404 and stores nothing.
C2_ReadingsOfRegisteredDevices ==
    /\ []ReadingsReferenceDevices
    /\ [][/\ device_data' # device_data
               => DeviceIdStored(device_data'[Len(device_data')].device_id)
          /\ \A w \in Workers :
                (Arrives(w, "receive_data")
                    /\ ~DeviceIdStored(req'[w].device_id))
                  => /\ Rejected(w, 404)
                     /\ resp'[w].body.detail = "Device not registered"]_vars

\* a reading is stored and a later receive_data for an unregistered device
\* was answered 404
C2_Witness ==
    \E w \in Workers :
        /\ Len(device_data) = 1
        /\ req[w].op = "receive_data"
        /\ resp[w].status = 404
        /\ ~DeviceIdStored(req[w].device_id)

\* table t2 is table t with one more row at its end
Appended(t, t2) == Len(t2) = Len(t) + 1 /\ SubSeq(t2, 1, Len(t)) = t

\* table t2 holds every row of t, unchanged and at its place
Kept(t, t2) == Len(t2) >= Len(t) /\ SubSeq(t2, 1, Len(t)) = t

FrameOf(w) ==
    LET op == req'[w].op
        ok == resp'[w].status = 200
    IN  /\ (Acts(w) /\ ~Completes(w)) => store' = store
        /\ (Completes(w) /\ (~ok \/ op \in {"get_stats", "get_user_stats"}))
              => store' = store
        /\ (Completes(w) /\ ok /\ op = "create_user")
              => /\ Appended(users, users')
                 /\ UNCHANGED <<devices, device_data>>
        /\ (Completes(w) /\ ok /\ op = "register_device")
              => /\ Appended(devices, devices')
                 /\ UNCHANGED <<users, device_data>>
        /\ (Completes(w) /\ ok /\ op = "receive_data")
              => /\ Appended(device_data, device_data')
                 /\ UNCHANGED <<users, devices>>

\* C9: no step changes or removes a stored row; the queries and every
\* rejected request leave the three tables as they are; a successful
\* create_user, register_device or receive_data appends one row to its own
\* table and changes no other table.
C9_StoreOnlyGrows ==
    [][/\ Kept(users, users') /\ Kept(devices, devices')
       /\ Kept(device_data, device_data')
       /\ \A w \in Workers : FrameOf(w)
       /\ store' # store => \E w \in Workers : Completes(w)]_vars

\* a query answered after a user with two devices and a reading were stored
C9_Witness ==
    \E w \in Workers :
        /\ Len(devices) = 2 /\ Len(device_data) = 1
        /\ devices[1].owner_id = devices[2].owner_id
        /\ req[w].op = "get_stats"
        /\ resp[w].status = 200

\* C10: whatever the interleaving of two requests with the same username
\* (or device_id), the table never holds the name (or id) twice and at most
\* one of the two requests succeeds.
C10_OneOfTwoSucceeds ==
    /\ UniqueUsernames
    /\ UniqueDeviceIds
    /\ \A v, w \in Workers :
          (/\ v # w
           /\ pc[v] = "idle" /\ pc[w] = "idle"
           /\ resp[v].status = 200 /\ resp[w].status = 200
           /\ req[v].op = req[w].op)
          => /\ req[v].op = "create_user"
                  => req[v].username # req[w].username
             /\ req[v].op = "register_device"
                  => req[v].device_id # req[w].device_id

\* both requests passed the check; one was stored, the other failed on the
\* unique constraint
C10_Witness ==
    \E v, w \in Workers :
        /\ req[v].op = "create_user" /\ req[w] = req[v]
        /\ pc[v] = "idle" /\ pc[w] = "idle"
        /\ resp[v].status = 200 /\ resp[w].status = 500

----------------------------------------------------------------------------
(* What a summary of a collection of values is, stated without the code *)

Axes == {"x", "y", "z"}

RECURSIVE Total(_, _)
\* the arithmetic sum of vs[i] over the indices I
Total(vs, I) ==
    IF I = {} THEN 0
    ELSE LET i == CHOOSE k \in I : TRUE IN vs[i] + Total(vs, I \ {i})

ArithmeticSum(vs) == Total(vs, DOMAIN vs)

Smallest(vs) == CHOOSE v \in {vs[i] : i \in DOMAIN vs} : \A i \in DOMAIN vs : v <= vs[i]

Largest(vs) == CHOOSE v \in {vs[i] : i \in DOMAIN vs} : \A i \in DOMAIN vs : v >= vs[i]

\* the k-th value of vs in ascending order
KthSmallest(vs, k) ==
    CHOOSE v \in {vs[i] : i \in DOMAIN vs} :
        /\ Cardinality({i \in DOMAIN vs : vs[i] < v}) < k
        /\ Cardinality({i \in DOMAIN vs : vs[i] <= v}) >= k

\* no addition of some of the values rounds, in whatever order they are added
ExactlySummable(vs) ==
    \A I \in SUBSET DOMAIN vs : representable(Total(vs, I))

\* s has the count, min, max and median of the values vs; the mean of the two
\* middle values is the rounded one
Summarises(s, vs) ==
    LET n == Len(vs)
    IN  /\ s.count = n
        /\ s.min = Smallest(vs)
        /\ s.max = Largest(vs)
        /\ n % 2 = 1 => s.median = [num |-> KthSmallest(vs, (n + 1) \div 2), den |-> 1]
        /\ n % 2 = 0 =>
              s.median = [num |-> float_add(KthSmallest(vs, n \div 2),
                                            KthSmallest(vs, n \div 2 + 1)),
                          den |-> 2]

----------------------------------------------------------------------------
(* Properties of compute_stats *)

Called == stats # NoStats /\ ~raised(stats)

\* C5 as claimed: of a non-empty list compute_stats returns the smallest and
\* the largest value, the length, the arithmetic sum, and as median the middle
\* value or the arithmetic mean of the two middle values.  For floats the
\* arithmetic sum and mean are read as the floats nearest to them.
C5_ArithmeticSummary ==
    Called =>
        /\ Summarises(stats, values)
        /\ stats.sum = float_add(ArithmeticSum(values), 0)

\* C5, amended: min, max and count are as claimed and the median of an odd
\* number of values is the middle one; the sum and the mean of the two middle
\* values are floating-point results: they are the arithmetic sum and mean
\* when no addition of the values rounds, and [1,2,3,4], [3,1,2] and [5] give
\* the results the claim lists.
C5_RoundedSummary ==
    Called =>
        LET n == Len(values)
            lo == KthSmallest(values, n \div 2)
            hi == KthSmallest(values, n \div 2 + 1)
        IN  /\ Summarises(stats, values)
            /\ ExactlySummable(values) => stats.sum = ArithmeticSum(values)
            /\ (n % 2 = 0 /\ representable(lo + hi))
                  => stats.median = [num |-> lo + hi, den |-> 2]
            /\ values = <<1, 2, 3, 4>>
                  => stats = [min |-> 1, max |-> 4, count |-> 4, sum |-> 10,
                              median |-> [num |-> 5, den |-> 2]]
            /\ values = <<3, 1, 2>>
                  => stats = [min |-> 1, max |-> 3, count |-> 3, sum |-> 6,
                              median |-> [num |-> 2, den |-> 1]]
            /\ values = <<5>>
                  => stats = [min |-> 5, max |-> 5, count |-> 1, sum |-> 5,
                              median |-> [num |-> 5, den |-> 1]]

\* the call on [1,2,3,4] has returned, with median 2.5
C5_Witness ==
    /\ values = <<1, 2, 3, 4>>
    /\ Called
    /\ stats.median = [num |-> 5, den |-> 2]

Recalled == Called /\ permuted_stats # NoStats

\* C8 as claimed: the same values in another order give the same summary.
C8_SameSummaryInAnyOrder == Recalled => permuted_stats = stats

\* C8, amended: the same values in another order give the same min, max,
\* count and median, and the same sum when no addition of the values rounds.
C8_SameSummaryButSum ==
    Recalled =>
        /\ permuted_stats.min = stats.min
        /\ permuted_stats.max = stats.max
        /\ permuted_stats.count = stats.count
        /\ permuted_stats.median = stats.median
        /\ ExactlySummable(values) => permuted_stats.sum = stats.sum

\* four values, not in ascending order, were summarised in two orders
C8_Witness ==
    /\ Recalled
    /\ Len(values) = 4
    /\ permuted # values
    /\ permuted = sorted(values)
    /\ permuted_stats = stats

----------------------------------------------------------------------------
(* Properties of the queries.  The store does not change in SpecQueries, so
   a response is compared with the store as it is. *)

Answered(w, op) == pc[w] = "idle" /\ req[w].op = op /\ resp[w] # NoResp

Values(I, axis) ==
    Column(SelectSeq(device_data, LAMBDA d : d.id \in I), axis)

\* the rows of the device of request r whose timestamp is in its range
InRange(r) ==
    {i \in 1 .. Len(device_data) :
        /\ device_data[i].device_id = r.device_id
        /\ r.start # <<>> => r.start[1] <= device_data[i].timestamp
        /\ r.end # <<>> => device_data[i].timestamp <= r.end[1]}

RowsOf(ids) == {i \in 1 .. Len(device_data) : device_data[i].device_id \in ids}

\* the device ids of the devices of the user called username
OwnedBy(username) ==
    {devices[j].device_id : j \in {k \in 1 .. Len(devices) :
        \E i \in 1 .. Len(users) :
            users[i].username = username /\ users[i].id = devices[k].owner_id}}

SomeDeviceWithoutRows(username) ==
    \E id \in OwnedBy(username) : RowsOf({id}) = {}

\* C3: get_stats and get_user_stats answer 404 whenever statistics would be
\* computed over no reading or the user or the devices do not exist, also
\* when only one of the user's devices has no reading.
C3_NotFoundOverNoReadings ==
    \A w \in Workers :
        /\ (Answered(w, "get_stats") /\ InRange(req[w]) = {})
              => resp[w].status = 404
        /\ (Answered(w, "get_user_stats")
              /\ (\/ ~UsernameStored(req[w].username)
                  \/ OwnedBy(req[w].username) = {}
                  \/ SomeDeviceWithoutRows(req[w].username)))
              => resp[w].status = 404

CountsAtLeastOne(axes) == \A axis \in Axes : axes[axis].count >= 1

\* C4: every summary of a 200 response of get_stats or get_user_stats, for
\* each axis, aggregated or per device, has a count of at least 1.
C4_NoEmptySummary ==
    \A w \in Workers :
        /\ (Answered(w, "get_stats") /\ resp[w].status = 200)
              => CountsAtLeastOne(resp[w].body)
        /\ (Answered(w, "get_user_stats") /\ resp[w].status = 200)
              => /\ CountsAtLeastOne(resp[w].body.aggregated)
                 /\ \A id \in DOMAIN resp[w].body.per_device :
                        CountsAtLeastOne(resp[w].body.per_device[id])

\* get_user_stats answered 200 for a user with two devices
C4_Witness ==
    \E w \in Workers :
        /\ Answered(w, "get_user_stats")
        /\ resp[w].status = 200
        /\ Cardinality(DOMAIN resp[w].body.per_device) = 2

\* the floating-point sum of the sums of axis over the entries ids of per_device
RECURSIVE SumOfSums(_, _, _)
SumOfSums(per_device, ids, axis) ==
    IF ids = {} THEN 0
    ELSE LET id == CHOOSE d \in ids : TRUE
         IN  float_add(SumOfSums(per_device, ids \ {id}, axis),
                       per_device[id][axis].sum)

RECURSIVE CountOfCounts(_, _, _)
CountOfCounts(per_device, ids, axis) ==
    IF ids = {} THEN 0
    ELSE LET id == CHOOSE d \in ids : TRUE
         IN  CountOfCounts(per_device, ids \ {id}, axis) + per_device[id][axis].count

AllDevicesHaveRows(username) ==
    /\ OwnedBy(username) # {}
    /\ ~SomeDeviceWithoutRows(username)

\* the response of w has an entry for each device of the user, each entry and
\* aggregated summarise the rows of that device and of all of them, and the
\* counts add up
PerDeviceAndAggregated(w) ==
    LET owned == OwnedBy(req[w].username)
        body == resp[w].body
    IN  /\ resp[w].status = 200
        /\ DOMAIN body.per_device = owned
        /\ \A axis \in Axes :
            /\ \A id \in owned :
                  Summarises(body.per_device[id][axis], Values(RowsOf({id}), axis))
            /\ Summarises(body.aggregated[axis], Values(RowsOf(owned), axis))
            /\ body.aggregated[axis].count
                  = CountOfCounts(body.per_device, owned, axis)

\* C6 as claimed: for a user whose devices all have readings, per_device has
\* one entry per device of the user, over the readings of that device,
\* aggregated is over the readings of the user's devices only, and for each
\* axis the aggregated count and sum are the sums of the per_device counts
\* and sums.
C6_AggregatedIsSumOfDevices ==
    \A w \in Workers :
        (Answered(w, "get_user_stats") /\ AllDevicesHaveRows(req[w].username))
          => /\ PerDeviceAndAggregated(w)
             /\ \A axis \in Axes :
                    resp[w].body.aggregated[axis].sum
                      = SumOfSums(resp[w].body.per_device,
                                  OwnedBy(req[w].username), axis)

\* C6, amended: as claimed, but the aggregated sum is the sum of the
\* per_device sums only when no addition of the values rounds.
C6_AggregatedCountIsSumOfDevices ==
    \A w \in Workers :
        (Answered(w, "get_user_stats") /\ AllDevicesHaveRows(req[w].username))
          => /\ PerDeviceAndAggregated(w)
             /\ \A axis \in Axes :
                    ExactlySummable(Values(RowsOf(OwnedBy(req[w].username)), axis))
                      => /\ resp[w].body.aggregated[axis].sum
                              = SumOfSums(resp[w].body.per_device,
                                          OwnedBy(req[w].username), axis)
                         /\ resp[w].body.aggregated[axis].sum
                              = ArithmeticSum(Values(RowsOf(OwnedBy(req[w].username)), axis))

\* a user with one device was answered while the other user's device has
\* readings too
C6_Witness ==
    \E w \in Workers :
        /\ Answered(w, "get_user_stats")
        /\ resp[w].status = 200
        /\ Cardinality(OwnedBy(req[w].username)) = 1
        /\ RowsOf(DeviceIds \ OwnedBy(req[w].username)) # {}
        /\ Cardinality(RowsOf(OwnedBy(req[w].username))) = 2

\* C7: get_stats summarises the rows of the device with start <= timestamp
\* and timestamp <= end, for the bounds that are given: each axis has their
\* count, min and max, and the answer is 404 "No data found" exactly when
\* there is none, as for a device_id that is not registered.
C7_StatsOverTimeRange ==
    \A w \in Workers :
        Answered(w, "get_stats") =>
            IF InRange(req[w]) = {}
            THEN resp[w] = [status |-> 404, body |-> [detail |-> "No data found"]]
            ELSE /\ resp[w].status = 200
                 /\ \A axis \in Axes :
                      /\ resp[w].body[axis].count = Cardinality(InRange(req[w]))
                      /\ Summarises(resp[w].body[axis],
                                    Values(InRange(req[w]), axis))

\* a range from 2 to 2 left out a row of the device stored at 1 and kept two
C7_Witness ==
    \E w \in Workers :
        /\ Answered(w, "get_stats")
        /\ req[w].start = <<2>> /\ req[w].end = <<2>>
        /\ resp[w].status = 200
        /\ resp[w].body.x.count = 2
        /\ Cardinality(RowsOf({req[w].device_id})) = 3

====
